---- MODULE Spec2Model ----
(***************************************************************************)
(* Model of the WhatsApp channel adapter of Hexabot:                       *)
(*   - WhatsAppHandler (src/index.channel.ts): webhook handling            *)
(*     (subscribe handshake, signature check, shape check, dispatch loop); *)
(*   - WhatsAppEventWrapper (src/unnamed/part_005, first file of the       *)
(*     part): classification of one inbound unit and its accessors.        *)
(*   - the outbound translator of WhatsAppHandler (_formatMessage and the  *)
(*     format functions): envelope of the host -> WhatsApp wire message.   *)
(*   - the transport: GraphApi, MediaAPI and ProfileAPI (src/lib), the     *)
(*     send path of WhatsAppHandler and the replacement of the client on   *)
(*     an update of the access token.                                      *)
(*                                                                         *)
(* Optional values (TypeScript `x?: T`, undefined) are sequences of length *)
(* at most one: None for undefined, Some(v) for a present value.           *)
(***************************************************************************)
EXTENDS Integers, Sequences, FiniteSets, TLC

VARIABLES
  settings,   \* channel settings read by getSettings(): app_secret, verify_token
  pc,         \* position of handle() for the request being served
  req,        \* the request being served (None when idle)
  whatsapp,   \* req.whatsapp, set by middleware(): None or Some(expectedHash)
  resp,       \* the response written through res (None while not answered)
  threw,      \* TRUE when an exception escaped handle()
  ei,         \* index of the entry under iteration (data.entry.forEach)
  ci,         \* index of the change under iteration (entry.changes.forEach)
  ui,         \* index in [...messageEvents, ...statusEvents]
  events,     \* [...messageEvents, ...statusEvents] of the current change
  built,      \* history: payload position of every wrapper constructed
  emitted,    \* history: every eventEmitter.emit call, in call order
  logged,     \* history: payload position of every unit whose failure was logged
  wrapper,    \* a wrapper under use by the host: None or Some(_adapter)
  lastCall,   \* result of the last accessor call on wrapper (None if none)
  firstCall,  \* history: the first accessor call on wrapper since its attachment
              \* was last set (or since construction), None if none
  envelope,   \* an outgoing envelope with its block options (None if none)
  wire,       \* outcome of _formatMessage on envelope (None while not called)
  api,        \* the transport clients constructed so far, in order of construction;
              \* this.api is the last one (<<>> before init())
  calls       \* the calls of the transport operations, by call id

handlerVars == <<settings, pc, req, whatsapp, resp, threw, ei, ci, ui, events, built, emitted, logged>>
wrapperVars == <<wrapper, lastCall, firstCall>>
formatVars == <<envelope, wire>>
sendVars == <<api, calls>>
vars == <<settings, pc, req, whatsapp, resp, threw, ei, ci, ui, events, built, emitted, logged,
          wrapper, lastCall, firstCall, envelope, wire, api, calls>>

-----------------------------------------------------------------------------
(* Bounds of the model *)

MaxEntries == 2
MaxChanges == 2
MaxUnits == 3
MaxHeaderLen == 3
MaxContacts == 2
MaxButtons == 3
MaxListButtons == 2
MaxElements == 2
MaxDescLen == 74
MaxCalls == 2
MaxUpdates == 1

-----------------------------------------------------------------------------
(* Optional values and small helpers *)

None == <<>>
Some(v) == <<v>>
IsSome(o) == o # <<>>
Get(o) == o[1]

\* JavaScript truthiness of an optional string held as a sequence of characters
TruthyChars(o) == IsSome(o) /\ Get(o) # <<>>

\* JavaScript truthiness of an optional string held as a TLA+ string
TruthyStr(o) == IsSome(o) /\ Get(o) # ""

\* a call slot in which no transport operation was called yet
NoCall == [pc |-> "idle"]

\* All sequences over S of length n, and of length at most n
SeqsOfLen(S, n) == [1..n -> S]
SeqsUpTo(S, n) == UNION {SeqsOfLen(S, k) : k \in 0..n}

-----------------------------------------------------------------------------
(* Wire schema: inbound units (src/types.ts, namespace WhatsApp.Webhook) *)

MediaTypes == {"image", "audio", "video", "document", "sticker"}

\* WhatsApp.Webhook.MessageType
MessageType == {"text", "image", "interactive", "document", "audio", "sticker", "order",
                "video", "button", "contacts", "location", "unknown", "system", "reaction"}

Status(id, st) ==
  [id |-> id, recipient_id |-> "15551234567", status |-> st, timestamp |-> <<"1", "7">>]

BaseMessage(type) ==
  [from |-> "15551234567", id |-> "wamid.m", timestamp |-> <<"1", "7">>, type |-> type,
   text |-> None, contacts |-> None, interactive |-> None, button |-> None,
   location |-> None, media |-> None]

TextObject(body) == [body |-> body]

MimeOf(type) ==
  CASE type = "image" -> "image/jpeg"
    [] type = "audio" -> "audio/ogg"
    [] type = "video" -> "video/mp4"
    [] type = "document" -> "application/pdf"
    [] type = "sticker" -> "image/webp"

Interactives ==
  {[type |-> t, button_reply |-> b, list_reply |-> l] :
     t \in {"button_reply", "list_reply"},
     b \in {None, Some([id |-> "p1", title |-> "One"]), Some([id |-> "", title |-> ""]),
            Some([id |-> "p3", title |-> ""])},
     l \in {None, Some([id |-> "p2", title |-> "Two", description |-> "row"])}}

Coordinates == {None, Some(0), Some(36), Some(-10)}

NameMin ==
  [formatted_name |-> "Ann Lee", first_name |-> None, last_name |-> None,
   middle_name |-> None, prefix |-> None, suffix |-> None]

ContactFull ==
  [name |-> [formatted_name |-> "Dr Bob M Roe Jr", first_name |-> Some("Bob"),
             last_name |-> Some("Roe"), middle_name |-> Some("M"), prefix |-> Some("Dr"),
             suffix |-> Some("Jr")],
   birthday |-> Some("1990-01-02"),
   org |-> Some([company |-> Some("Acme"), department |-> None, title |-> Some("CTO")]),
   emails |-> Some(<<[email |-> Some("bob@acme.io"), type |-> None]>>),
   phones |-> Some(<<[phone |-> None, type |-> Some("WORK"), wa_id |-> Some("1555")]>>),
   addresses |-> Some(<<[street |-> Some("1 Main"), city |-> None, state |-> None, zip |-> None,
                         country |-> Some("TN"), country_code |-> None, type |-> Some("HOME")]>>),
   urls |-> Some(<<[url |-> Some("https://acme.io"), type |-> None]>>)]

\* a contact with a name only, one with every part, one with an empty
\* organisation and an empty list of emails
Contacts ==
  {[name |-> NameMin, birthday |-> None, org |-> None, emails |-> None, phones |-> None,
    addresses |-> None, urls |-> None],
   ContactFull,
   [name |-> NameMin, birthday |-> None,
    org |-> Some([company |-> None, department |-> None, title |-> None]),
    emails |-> Some(<<>>), phones |-> None, addresses |-> None, urls |-> None]}

\* text, media, interactive, button, contacts and location messages, and
\* messages of the other types
Messages ==
  {[BaseMessage("text") EXCEPT !.text = Some(TextObject(b))] : b \in {"hello", ""}}
    \cup {[BaseMessage(t) EXCEPT !.media = Some([id |-> "media1", mime_type |-> MimeOf(t)])] :
            t \in MediaTypes}
    \cup {[BaseMessage("interactive") EXCEPT !.interactive = Some(i)] : i \in Interactives}
    \cup {[BaseMessage("button") EXCEPT !.button = Some([payload |-> p, text |-> "Yes"])] :
            p \in {"btn1", ""}}
    \cup {[BaseMessage("contacts") EXCEPT !.contacts = Some(cs)] :
            cs \in SeqsUpTo(Contacts, MaxContacts)}
    \cup {[BaseMessage("location") EXCEPT !.location = l] :
            l \in {None} \cup {Some([latitude |-> la, longitude |-> lo]) :
                                 la \in Coordinates, lo \in Coordinates}}
    \cup {BaseMessage(t) : t \in {"order", "system", "reaction", "unknown", "ephemeral"}}

\* WhatsApp.Event
Events == Messages \cup {Status("wamid.1", st) : st \in {"read", "delivered", "sent", "failed", "deleted"}}

IsStatusUnit(event) == "status" \in DOMAIN event

-----------------------------------------------------------------------------
(* WhatsAppEventWrapper (src/unnamed/part_005, lines 98-436) *)

\* A text is a sequence of lines (the pieces between '\n'); a line is the
\* tuple of the pieces its template literal concatenates.
EmptyLine == <<>>

OrNA(o) == IF TruthyStr(o) THEN Get(o) ELSE "N/A"

OptLine(label, o) == IF TruthyStr(o) THEN <<<<label, Get(o)>>>> ELSE <<>>

\* String.prototype.trim() on a text: no blank line is left at either end
RECURSIVE TrimEnd(_)
TrimEnd(t) ==
  IF t # <<>> /\ t[Len(t)] = EmptyLine THEN TrimEnd(SubSeq(t, 1, Len(t) - 1)) ELSE t

RECURSIVE TrimStart(_)
TrimStart(t) == IF t # <<>> /\ Head(t) = EmptyLine THEN TrimStart(Tail(t)) ELSE t

Trim(t) == TrimStart(TrimEnd(t))

\* contacts.length is truthy
NonEmptyList(o) == IF IsSome(o) THEN Len(Get(o)) > 0 ELSE FALSE

ContactLines(contact) ==
  LET name == contact.name
      nameLines ==
        <<<<"Name: ", name.formatted_name>>>>
          \o OptLine("  First Name: ", name.first_name)
          \o OptLine("  Last Name: ", name.last_name)
          \o OptLine("  Middle Name: ", name.middle_name)
          \o OptLine("  Prefix: ", name.prefix)
          \o OptLine("  Suffix: ", name.suffix)
      birthdayLines == OptLine("Birthday: ", contact.birthday)
      orgLines ==
        IF IsSome(contact.org)
          THEN <<<<"Organization:">>>>
                 \o OptLine("  Company: ", Get(contact.org).company)
                 \o OptLine("  Department: ", Get(contact.org).department)
                 \o OptLine("  Title: ", Get(contact.org).title)
          ELSE <<>>
      emailLines ==
        IF NonEmptyList(contact.emails)
          THEN <<<<"Emails:">>>>
                 \o [i \in 1..Len(Get(contact.emails)) |->
                       <<"  - Email: ", OrNA(Get(contact.emails)[i].email),
                         ", Type: ", OrNA(Get(contact.emails)[i].type)>>]
          ELSE <<>>
      phoneLines ==
        IF NonEmptyList(contact.phones)
          THEN <<<<"Phones:">>>>
                 \o [i \in 1..Len(Get(contact.phones)) |->
                       <<"  - Phone: ", OrNA(Get(contact.phones)[i].phone),
                         ", Type: ", OrNA(Get(contact.phones)[i].type),
                         ", WhatsApp ID: ", OrNA(Get(contact.phones)[i].wa_id)>>]
          ELSE <<>>
      addressLines ==
        IF NonEmptyList(contact.addresses)
          THEN <<<<"Addresses:">>>>
                 \o [i \in 1..Len(Get(contact.addresses)) |->
                       <<"  - Street: ", OrNA(Get(contact.addresses)[i].street),
                         ", City: ", OrNA(Get(contact.addresses)[i].city),
                         ", State: ", OrNA(Get(contact.addresses)[i].state),
                         ", ZIP: ", OrNA(Get(contact.addresses)[i].zip),
                         ", Country: ", OrNA(Get(contact.addresses)[i].country),
                         ", Country Code: ", OrNA(Get(contact.addresses)[i].country_code),
                         ", Type: ", OrNA(Get(contact.addresses)[i].type)>>]
          ELSE <<>>
      urlLines ==
        IF NonEmptyList(contact.urls)
          THEN <<<<"URLs:">>>>
                 \o [i \in 1..Len(Get(contact.urls)) |-> <<"  - ", "[object Object]">>]
          ELSE <<>>
  IN nameLines \o birthdayLines \o orgLines \o emailLines \o phoneLines \o addressLines \o urlLines

\* contacts.reduce((result, contact) => result + lines.join('\n') + '\n\n', '')
RECURSIVE ReduceContacts(_)
ReduceContacts(contacts) ==
  IF contacts = <<>> THEN <<>>
  ELSE ReduceContacts(SubSeq(contacts, 1, Len(contacts) - 1))
         \o ContactLines(contacts[Len(contacts)]) \o <<EmptyLine>>

serializeContactsToText(contacts) == Trim(ReduceContacts(contacts))

\* a JavaScript string held in a field declared as an object
StringValue(t) == [string |-> t]

\* the adapter as the parent constructor leaves it before calling _init
EmptyAdapter(event) ==
  [eventType |-> "unknown", messageType |-> None, raw |-> event, attachment |-> None]

\* variant: every status but 'read' is taken as a delivery
InitStatusSentAsDelivery(event) ==
  [EmptyAdapter(event) EXCEPT
     !.eventType = CASE event.status = "read" -> "read"
                     [] OTHER -> "delivery"]

InitStatus(event) ==
  [EmptyAdapter(event) EXCEPT
     !.eventType = CASE event.status = "delivered" -> "delivery"
                     [] event.status = "read" -> "read"
                     [] OTHER -> "unknown"]

\* variant: the sticker case is missing from the switch
InitMessageNoSticker(event) ==
  LET withText ==
        IF event.type = "contacts"
          THEN [event EXCEPT !.text = Some(StringValue(serializeContactsToText(Get(event.contacts))))]
          ELSE event
  IN CASE event.type \in {"contacts", "text"} ->
            [EmptyAdapter(withText) EXCEPT !.eventType = "message", !.messageType = Some("message")]
       [] event.type \in {"image", "audio", "video", "document"} ->
            [EmptyAdapter(event) EXCEPT !.eventType = "message", !.messageType = Some("attachments")]
       [] event.type \in {"button", "interactive"} ->
            [EmptyAdapter(event) EXCEPT !.eventType = "message", !.messageType = Some("postback")]
       [] event.type = "location" ->
            [EmptyAdapter(event) EXCEPT !.eventType = "message", !.messageType = Some("location")]
       [] OTHER ->
            [EmptyAdapter(event) EXCEPT !.eventType = "unknown"]

InitMessage(event) ==
  LET withText ==
        IF event.type = "contacts"
          THEN [event EXCEPT !.text = Some(StringValue(serializeContactsToText(Get(event.contacts))))]
          ELSE event
  IN CASE event.type \in {"contacts", "text"} ->
            [EmptyAdapter(withText) EXCEPT !.eventType = "message", !.messageType = Some("message")]
       [] event.type \in {"image", "audio", "video", "document", "sticker"} ->
            [EmptyAdapter(event) EXCEPT !.eventType = "message", !.messageType = Some("attachments")]
       [] event.type \in {"button", "interactive"} ->
            [EmptyAdapter(event) EXCEPT !.eventType = "message", !.messageType = Some("postback")]
       [] event.type = "location" ->
            [EmptyAdapter(event) EXCEPT !.eventType = "message", !.messageType = Some("location")]
       [] OTHER ->
            [EmptyAdapter(event) EXCEPT !.eventType = "unknown"]

_init(event) == IF IsStatusUnit(event) THEN InitStatus(event) ELSE InitMessage(event)

getEventType(adapter) == adapter.eventType


\* Outcome of a call: a returned value (None is undefined) or a thrown error
Return(v) == [outcome |-> "return", value |-> v, error |-> ""]
Throw(e) == [outcome |-> "throw", value |-> None, error |-> e]

\* variant: the right operand is preferred
JsOrRightFirst(a, b) == IF TruthyStr(b) THEN b ELSE a

\* a || b on optional strings
JsOr(a, b) == IF TruthyStr(a) THEN a ELSE b

\* o?.f
OptField(o, f) == IF IsSome(o) THEN Some(Get(o)[f]) ELSE None

\* coordinates?.latitude || 0
CoordinateOrZero(location, f) ==
  IF IsSome(location) /\ IsSome(Get(location)[f]) /\ Get(Get(location)[f]) # 0
    THEN Get(Get(location)[f]) ELSE 0

\* variant: both coordinates read from the latitude
LocationPayloadLatitudeTwice(raw) ==
  [type |-> "location",
   coordinates |-> [lat |-> CoordinateOrZero(raw.location, "latitude"),
                    lon |-> CoordinateOrZero(raw.location, "latitude")]]

LocationPayload(raw) ==
  [type |-> "location",
   coordinates |-> [lat |-> CoordinateOrZero(raw.location, "latitude"),
                    lon |-> CoordinateOrZero(raw.location, "longitude")]]

\* Attachment.getTypeByMime is the host's; its application is left uninterpreted
TypeByMime(attachment) == <<"getTypeByMime", attachment.type>>

\* variant: the attachment payload carries the provider's media id
getPayloadMediaId(adapter) ==
  IF adapter.eventType = "message" /\ adapter.messageType = Some("attachments")
    THEN IF ~IsSome(adapter.attachment)
           THEN Throw("Unable to find attachment")
           ELSE Return(Some([type |-> "attachments",
                             attachments |->
                               [type |-> TypeByMime(Get(adapter.attachment)),
                                payload |-> [id |-> Get(adapter.raw.media).id]]]))
    ELSE Return(None)

\* variant: a plain-text message answers its text as the payload
getPayloadTextAsPayload(adapter) ==
  CASE adapter.messageType = Some("message") -> Return(Some(adapter.raw.type))
    [] adapter.messageType = Some("location") -> Return(Some(LocationPayload(adapter.raw)))
    [] OTHER -> Return(None)

getPayload(adapter) ==
  IF adapter.eventType = "message"
    THEN CASE adapter.messageType = Some("postback") ->
                IF IsSome(adapter.raw.interactive)
                  THEN LET interactive == Get(adapter.raw.interactive)
                           first == OptField(interactive.button_reply, "id")
                       IN IF TruthyStr(first) THEN Return(first)
                          ELSE IF IsSome(interactive.list_reply)
                                 THEN Return(Some(Get(interactive.list_reply).id))
                                 ELSE Throw("TypeError")
                  ELSE IF IsSome(adapter.raw.button)
                         THEN Return(Some(Get(adapter.raw.button).payload))
                         ELSE Throw("TypeError")
           [] adapter.messageType = Some("location") ->
                Return(Some(LocationPayload(adapter.raw)))
           [] adapter.messageType = Some("attachments") ->
                IF ~IsSome(adapter.attachment)
                  THEN Throw("Unable to find attachment")
                  ELSE Return(Some([type |-> "attachments",
                                    attachments |->
                                      [type |-> TypeByMime(Get(adapter.attachment)),
                                       payload |-> [id |-> Get(adapter.attachment).id]]]))
           [] OTHER -> Return(None)
    ELSE Return(None)

\* raw.text.body, where raw.text holds a Text object or a string
TextBody(text) == IF "body" \in DOMAIN text THEN Some(text.body) ELSE None

getMessage(adapter) ==
  CASE adapter.messageType = Some("message") ->
         IF IsSome(adapter.raw.text)
           THEN Return(Some([text |-> TextBody(Get(adapter.raw.text))]))
           ELSE Throw("TypeError")
    [] adapter.messageType = Some("postback") ->
         IF IsSome(adapter.raw.interactive)
           THEN LET interactive == Get(adapter.raw.interactive)
                IN Return(Some([postback |-> JsOr(OptField(interactive.button_reply, "id"),
                                                  OptField(interactive.list_reply, "id")),
                                text |-> JsOr(OptField(interactive.button_reply, "title"),
                                              OptField(interactive.list_reply, "title"))]))
           ELSE IF IsSome(adapter.raw.button)
                  THEN Return(Some([postback |-> Some(Get(adapter.raw.button).payload),
                                    text |-> Some(Get(adapter.raw.button).text)]))
                  ELSE Throw("TypeError")
    [] adapter.messageType = Some("location") ->
         Return(Some(LocationPayload(adapter.raw)))
    [] adapter.messageType = Some("attachments") ->
         IF ~IsSome(adapter.attachment)
           THEN Throw("Unable to find attachment")
           ELSE Return(Some([type |-> "attachments",
                             \* serialized.concat(...) returns a new array that is dropped
                             serialized_text |-> <<"attachment">>,
                             attachment |->
                               [type |-> TypeByMime(Get(adapter.attachment)),
                                payload |-> [id |-> Get(adapter.attachment).id]]]))
    [] OTHER -> Return(None)

getId(adapter) == Return(Some(adapter.raw.id))

getRecipientForeignId(adapter) ==
  IF "recipient_id" \in DOMAIN adapter.raw
    THEN Return(Some(adapter.raw.recipient_id))
    ELSE Return(None)

Digits == <<"0", "1", "2", "3", "4", "5", "6", "7", "8", "9">>

IsDigit(c) == \E d \in 1..10 : Digits[d] = c

DigitValue(c) == (CHOOSE d \in 1..10 : Digits[d] = c) - 1

\* the number written by the leading digits of chars, read after the number acc
RECURSIVE ParseDigits(_, _)
ParseDigits(chars, acc) ==
  IF chars # <<>> /\ IsDigit(Head(chars))
    THEN ParseDigits(Tail(chars), 10 * acc + DigitValue(Head(chars)))
    ELSE acc

\* parseInt on a string of digits; None is NaN
parseInt(chars) ==
  IF chars # <<>> /\ IsDigit(Head(chars)) THEN Some(ParseDigits(chars, 0)) ELSE None

getWatermark(adapter) == Return(parseInt(adapter.raw.timestamp))

\* variant: the sender is read from any unit that carries a `from`
getSenderForeignIdOfAnyMessage(adapter) ==
  IF "from" \in DOMAIN adapter.raw THEN Return(Some(adapter.raw.from)) ELSE Return(None)

getSenderForeignId(adapter) ==
  IF adapter.eventType = "message" THEN Return(Some(adapter.raw.from)) ELSE Return(None)

\* variant: every status unit reports its id
getDeliveredMessagesAnyStatus(adapter) ==
  IF IsStatusUnit(adapter.raw) THEN Return(<<adapter.raw.id>>) ELSE Return(<<>>)

\* the returned array is the sequence of its elements
getDeliveredMessages(adapter) ==
  IF adapter.eventType = "delivery" /\ adapter.raw.status = "delivered"
    THEN Return(<<adapter.raw.id>>)
    ELSE Return(<<>>)


-----------------------------------------------------------------------------
(* Webhook requests (src/types.ts, WhatsApp.Webhook.Notification) *)

\* settings.app_secret ranges over two keys, settings.verify_token over the
\* default '' (src/settings.ts:32) and a configured token
SettingsSet == [app_secret : {1, 2}, verify_token : {"", "t1"}]

\* crypto.createHmac('sha1', secret).update(rawBody).digest('hex'): a keyed
\* digest, here one hexadecimal character that depends on key and body
Hmac(secret, rawBody) == IF (secret + rawBody) % 2 = 0 THEN <<"a">> ELSE <<"b">>

\* index of the first sep in str, 0 when there is none
RECURSIVE IndexOf(_, _, _)
IndexOf(str, sep, from) ==
  IF from > Len(str) THEN 0
  ELSE IF str[from] = sep THEN from ELSE IndexOf(str, sep, from + 1)

\* String.prototype.split(sep) for a one-character separator
RECURSIVE Split(_, _)
Split(str, sep) ==
  LET i == IndexOf(str, sep, 1)
  IN IF i = 0 THEN <<str>>
     ELSE <<SubSeq(str, 1, i - 1)>> \o Split(SubSeq(str, i + 1, Len(str)), sep)

Metadata == [display_phone_number |-> "15550001111", phone_number_id |-> "pn1"]

\* an empty array of units is sent as an absent field
OptSeq(q) == IF q = <<>> THEN None ELSE Some(q)

Change(contacts, messages, statuses) ==
  [field |-> "messages",
   value |-> [messaging_product |-> "whatsapp", metadata |-> Metadata, contacts |-> contacts,
              messages |-> OptSeq(messages), statuses |-> OptSeq(statuses)]]

\* the changes that carry exactly k units
ChangesWith(k) ==
  UNION {{Change(c, ms, ss) :
            c \in {None, Some(<<[profile |-> [name |-> "Ann Lee"], wa_id |-> "15551234567"]>>)},
            ms \in SeqsOfLen({[BaseMessage("text") EXCEPT !.text = Some(TextObject("hello"))],
                              BaseMessage("order")}, m),
            ss \in SeqsOfLen({Status("wamid.1", "delivered"), Status("wamid.1", "sent")}, k - m)} : m \in 0..k}

\* the sequences of exactly n changes that carry exactly u units in total
RECURSIVE ChangeSeqs(_, _)
ChangeSeqs(n, u) ==
  IF n = 0 THEN (IF u = 0 THEN {<<>>} ELSE {})
  ELSE UNION {{<<c>> \o r : c \in ChangesWith(k), r \in ChangeSeqs(n - 1, u - k)} : k \in 0..u}

Entry(changes) == [id |-> "whatsapp_business_account", changes |-> changes]

\* the sequences of exactly e entries with n changes and u units in total
RECURSIVE EntrySeqs(_, _, _)
EntrySeqs(e, n, u) ==
  IF e = 0 THEN (IF n = 0 /\ u = 0 THEN {<<>>} ELSE {})
  ELSE UNION {{<<Entry(cs)>> \o r : cs \in ChangeSeqs(j[1], j[2]),
                                    r \in EntrySeqs(e - 1, n - j[1], u - j[2])} :
                j \in (0..n) \X (0..u)}

Payloads ==
  UNION {EntrySeqs(x[1], x[2], x[3]) : x \in (0..MaxEntries) \X (0..MaxChanges) \X (0..MaxUnits)}

NoQuery == [mode |-> None, verify_token |-> None, challenge |-> None]

\* POST requests signed under the given secret that carry a notification
DispatchRequests(secret) ==
  {[method |-> "POST", query |-> NoQuery, signature |-> Some(<<"s", "=">> \o Hmac(secret, 1)),
    rawBody |-> 1, body |-> [object |-> Some("whatsapp_business_account"), entry |-> Some(p)]] :
     p \in Payloads}

\* POST requests with any signature header and any shape of body
GateRequests ==
  {[method |-> "POST", query |-> NoQuery, signature |-> sg, rawBody |-> rb,
    body |-> [object |-> ob, entry |-> en]] :
     sg \in {None} \cup {Some(h) : h \in SeqsUpTo({"s", "=", "a", "b"}, MaxHeaderLen)},
     rb \in {1, 2},
     ob \in {None, Some("whatsapp_business_account"), Some("page")},
     en \in {None, Some(<<>>),
             Some(<<Entry(<<Change(None, <<>>, <<Status("wamid.1", "read")>>)>>)>>)}}

\* the GET requests of the handshake, the gate requests and the dispatch requests
Requests(secret) ==
  {[method |-> "GET", query |-> q, signature |-> None, rawBody |-> 1,
    body |-> [object |-> None, entry |-> None]] :
     q \in [mode : {None, Some(""), Some("subscribe"), Some("unsubscribe")},
            verify_token : {None, Some(""), Some("t1"), Some("t2")},
            challenge : {None, Some("c1")}]}
    \cup GateRequests \cup DispatchRequests(secret)

-----------------------------------------------------------------------------
(* WhatsAppHandler: webhook handling (src/index.channel.ts) *)

Json(status, body) == Some([status |-> status, body |-> body])

Err(msg) == <<"err", msg>>

\* a request arrives (each request is served on its own: no state of the
\* handling of one request is read by the handling of another)
Receive ==
  /\ pc = "idle"
  /\ \E r \in Requests(settings.app_secret) :
       req' = Some(r)
  /\ pc' = "middleware"
  /\ whatsapp' = None
  /\ resp' = None
  /\ threw' = FALSE
  /\ ei' = 0 /\ ci' = 0 /\ ui' = 0
  /\ events' = <<>> /\ built' = <<>> /\ emitted' = <<>> /\ logged' = <<>>
  /\ UNCHANGED <<settings, wrapper, lastCall, firstCall, envelope, wire, api, calls>>

middleware ==
  /\ pc = "middleware"
  /\ whatsapp' =
       IF ~TruthyChars(Get(req).signature) THEN None
       ELSE Some([expectedHash |-> Hmac(settings.app_secret, Get(req).rawBody)])
  /\ pc' = "handle"
  /\ UNCHANGED <<settings, req, resp, threw, ei, ci, ui, events, built, emitted, logged,
                 wrapper, lastCall, firstCall, envelope, wire, api, calls>>

\* variant: hub.mode is not compared with 'subscribe'
SubscribeResponseAnyMode(verifyToken, data) ==
  IF verifyToken = ""
    THEN Json(500, Err("You need to specify a verifyToken in your config."))
  ELSE IF ~TruthyStr(data.mode) \/ ~TruthyStr(data.verify_token)
    THEN Json(500, Err("Did not recieve any verification token."))
  ELSE IF data.verify_token = Some(verifyToken)
    THEN Some([status |-> 200, body |-> <<"send", data.challenge>>])
  ELSE Json(500, Err("Failed validation. Make sure the validation tokens match."))

\* the response of subscribe() to a GET request
SubscribeResponse(verifyToken, data) ==
  IF verifyToken = ""
    THEN Json(500, Err("You need to specify a verifyToken in your config."))
  ELSE IF ~TruthyStr(data.mode) \/ ~TruthyStr(data.verify_token)
    THEN Json(500, Err("Did not recieve any verification token."))
  ELSE IF data.mode = Some("subscribe") /\ data.verify_token = Some(verifyToken)
    THEN Some([status |-> 200, body |-> <<"send", data.challenge>>])
  ELSE Json(500, Err("Failed validation. Make sure the validation tokens match."))

subscribe ==
  /\ pc = "handle"
  /\ Get(req).method = "GET"
  /\ resp' = SubscribeResponse(settings.verify_token, Get(req).query)
  /\ pc' = "done"
  /\ UNCHANGED <<settings, req, whatsapp, threw, ei, ci, ui, events, built, emitted, logged,
                 wrapper, lastCall, firstCall, envelope, wire, api, calls>>

\* variant: elements[0] is read instead of elements[1]
SignatureHashFirstElement(signature) == Some(Split(signature, "=")[1])

\* elements[1] of signature.split('='): undefined when there is no '='
SignatureHash(signature) ==
  LET elements == Split(signature, "=")
  IN IF Len(elements) >= 2 THEN Some(elements[2]) ELSE None

ExpectedHash(wa) == IF IsSome(wa) THEN Get(wa).expectedHash ELSE <<>>

SignatureMatches(signature, wa) == SignatureHash(signature) = Some(ExpectedHash(wa))

_verifySignature ==
  /\ pc = "handle"
  /\ Get(req).method # "GET"
  /\ IF ~IsSome(Get(req).signature)
       THEN \* signature.split on undefined: TypeError out of handle()
            /\ threw' = TRUE
            /\ pc' = "done"
            /\ resp' = resp
       ELSE IF ~SignatureMatches(Get(Get(req).signature), whatsapp)
         THEN /\ resp' = Json(500, Err("Couldn't match the request signature."))
              /\ pc' = "done"
              /\ threw' = threw
         ELSE /\ pc' = "validate"
              /\ UNCHANGED <<resp, threw>>
  /\ UNCHANGED <<settings, req, whatsapp, ei, ci, ui, events, built, emitted, logged,
                 wrapper, lastCall, firstCall, envelope, wire, api, calls>>

\* variant: any object tag is taken, only its presence is checked
HasAnyObject(data) == IsSome(data.object)

\* data.object === 'whatsapp_business_account'
HasAccountObject(data) == data.object = Some("whatsapp_business_account")

\* 'entry' in data
HasEntry(data) == IsSome(data.entry)

_validateMessage ==
  /\ pc = "validate"
  /\ IF ~HasAccountObject(Get(req).body)
       THEN /\ resp' = Json(400, Err("The whatsapp_business_account parameter is missing!"))
            /\ pc' = "done"
       ELSE /\ pc' = "entry"
            /\ resp' = resp
  /\ UNCHANGED <<settings, req, whatsapp, threw, ei, ci, ui, events, built, emitted, logged,
                 wrapper, lastCall, firstCall, envelope, wire, api, calls>>

\* if (!('entry' in data)) ... ; data.entry.forEach(...)
CheckEntry ==
  /\ pc = "entry"
  /\ IF ~HasEntry(Get(req).body)
       THEN /\ resp' = Json(500, Err("Webhook received no entry data."))
            /\ pc' = "done"
            /\ UNCHANGED <<ei, ci>>
       ELSE /\ pc' = "changes"
            /\ ei' = 1
            /\ ci' = 1
            /\ resp' = resp
  /\ UNCHANGED <<settings, req, whatsapp, threw, ui, events, built, emitted, logged,
                 wrapper, lastCall, firstCall, envelope, wire, api, calls>>

EntryList == Get(Get(req).body.entry)


\* change.value.contacts.find(({ wa_id }) => wa_id === message.from)
RECURSIVE Find(_, _)
Find(contacts, from) ==
  IF contacts = <<>> THEN None
  ELSE IF Head(contacts).wa_id = from THEN Some(Head(contacts)) ELSE Find(Tail(contacts), from)

\* payload position of a unit: entry, change, array ("messages" before "statuses"), index
Pos(e, c, kind, i) == <<e, c, kind, i>>

\* new WhatsAppEventWrapper(handler, event, channelData)
NewWrapper(event, channelData, pos) ==
  [adapter |-> _init(event), channelData |-> channelData, pos |-> pos]

ValueMessages(value) == IF IsSome(value.messages) THEN Get(value.messages) ELSE <<>>

ValueStatuses(value) == IF IsSome(value.statuses) THEN Get(value.statuses) ELSE <<>>

\* the map over messages throws at its first element when value.contacts is absent
BuildThrows(value) == ValueMessages(value) # <<>> /\ ~IsSome(value.contacts)

MessageEvents(value, e, c) ==
  [i \in 1..Len(ValueMessages(value)) |->
     NewWrapper(ValueMessages(value)[i],
                [metadata |-> value.metadata,
                 contact |-> Find(Get(value.contacts), ValueMessages(value)[i].from)],
                Pos(e, c, "messages", i))]

StatusEvents(value, e, c) ==
  [i \in 1..Len(ValueStatuses(value)) |->
     NewWrapper(ValueStatuses(value)[i], [metadata |-> value.metadata, contact |-> None],
                Pos(e, c, "statuses", i))]

\* variant: the status wrappers are left out of the list
ChangeEventsMessagesOnly(value, e, c) == MessageEvents(value, e, c)

\* variant: the status wrappers are put first
ChangeEventsStatusesFirst(value, e, c) == StatusEvents(value, e, c) \o MessageEvents(value, e, c)

\* [...messageEvents, ...statusEvents]
ChangeEvents(value, e, c) == MessageEvents(value, e, c) \o StatusEvents(value, e, c)

PosOf(evs) == [i \in 1..Len(evs) |-> evs[i].pos]

\* entry.changes.forEach: the wrappers of the next change are built
BuildChange ==
  /\ pc = "changes"
  /\ ei <= Len(EntryList)
  /\ ci <= Len(EntryList[ei].changes)
  /\ LET value == EntryList[ei].changes[ci].value
     IN IF BuildThrows(value)
          THEN \* TypeError in the map callback, outside the try block
               /\ threw' = TRUE
               /\ pc' = "done"
               /\ UNCHANGED <<events, built, ui>>
          ELSE /\ events' = ChangeEvents(value, ei, ci)
               /\ built' = built \o PosOf(ChangeEvents(value, ei, ci))
               /\ ui' = 1
               /\ pc' = "emit"
               /\ threw' = threw
  /\ UNCHANGED <<settings, req, whatsapp, resp, ei, ci, emitted, logged, wrapper, lastCall, firstCall, envelope, wire, api, calls>>

\* this.eventEmitter.emit(`hook:chatbot:${type}`, event) returns
EmitEvent ==
  /\ pc = "emit"
  /\ ui <= Len(events)
  /\ LET type == getEventType(events[ui].adapter)
     IN emitted' = IF type # ""
                     THEN Append(emitted, [name |-> <<"hook:chatbot:", type>>, event |-> events[ui]])
                     ELSE emitted
  /\ ui' = ui + 1
  /\ UNCHANGED <<settings, pc, req, whatsapp, resp, threw, ei, ci, events, built, logged,
                 wrapper, lastCall, firstCall, envelope, wire, api, calls>>

\* a listener of the host throws inside emit: caught and logged by the try block
EmitEventThrows ==
  /\ pc = "emit"
  /\ ui <= Len(events)
  /\ getEventType(events[ui].adapter) # ""
  /\ logged' = Append(logged, events[ui].pos)
  /\ ui' = ui + 1
  /\ UNCHANGED <<settings, pc, req, whatsapp, resp, threw, ei, ci, events, built, emitted,
                 wrapper, lastCall, firstCall, envelope, wire, api, calls>>

\* the forEach over the events of a change is over
EndChange ==
  /\ pc = "emit"
  /\ ui > Len(events)
  /\ pc' = "changes"
  /\ ci' = ci + 1
  /\ UNCHANGED <<settings, req, whatsapp, resp, threw, ei, ui, events, built, emitted, logged,
                 wrapper, lastCall, firstCall, envelope, wire, api, calls>>

\* the forEach over the changes of an entry is over
NextEntry ==
  /\ pc = "changes"
  /\ ei <= Len(EntryList)
  /\ ci > Len(EntryList[ei].changes)
  /\ ei' = ei + 1
  /\ ci' = 1
  /\ UNCHANGED <<settings, pc, req, whatsapp, resp, threw, ui, events, built, emitted, logged,
                 wrapper, lastCall, firstCall, envelope, wire, api, calls>>

\* return res.status(200).json({ success: true })
Respond ==
  /\ pc = "changes"
  /\ ei > Len(EntryList)
  /\ resp' = Json(200, <<"success", TRUE>>)
  /\ pc' = "done"
  /\ UNCHANGED <<settings, req, whatsapp, threw, ei, ci, ui, events, built, emitted, logged,
                 wrapper, lastCall, firstCall, envelope, wire, api, calls>>

Init ==
  /\ settings \in SettingsSet
  /\ pc = "idle"
  /\ req = None
  /\ whatsapp = None
  /\ resp = None
  /\ threw = FALSE
  /\ ei = 0 /\ ci = 0 /\ ui = 0
  /\ events = <<>> /\ built = <<>> /\ emitted = <<>> /\ logged = <<>>
  /\ wrapper = None
  /\ lastCall = None
  /\ firstCall = None
  /\ envelope = None
  /\ wire = None
  /\ api = <<>>
  /\ calls = [i \in 1..MaxCalls |-> NoCall]

Next ==
  \/ Receive
  \/ middleware
  \/ subscribe
  \/ _verifySignature
  \/ _validateMessage
  \/ CheckEntry
  \/ BuildChange
  \/ EmitEvent
  \/ EmitEventThrows
  \/ EndChange
  \/ NextEntry
  \/ Respond

Spec == Init /\ [][Next]_vars


-----------------------------------------------------------------------------
(* The host's use of one wrapper: construction, attachment resolution and   *)
(* accessor calls (src/unnamed/part_005, lines 110-348)                     *)

\* ids that the attachment service gives to stored media
AttachmentIds == {"att1", "att2"}

\* the Attachment that fetchAndStoreMedia stores for a media object
StoredAttachment(id, media) == [id |-> id, name |-> "file", type |-> media.mime_type]

\* new WhatsAppEventWrapper(handler, event, channelData)
Construct ==
  /\ wrapper = None
  /\ \E event \in Events : wrapper' = Some(_init(event))
  /\ lastCall' = None
  /\ firstCall' = None
  /\ UNCHANGED <<handlerVars, formatVars, sendVars>>

\* the host stores the media of an attachment message and links the result
fetchAndStoreMedia ==
  /\ IsSome(wrapper)
  /\ Get(wrapper).messageType = Some("attachments")
  /\ \E id \in AttachmentIds :
       wrapper' = Some([Get(wrapper) EXCEPT
                          !.attachment = Some(StoredAttachment(id, Get(Get(wrapper).raw.media)))])
  /\ lastCall' = None
  /\ firstCall' = None
  /\ UNCHANGED <<handlerVars, formatVars, sendVars>>

Call(op, result) == Some([op |-> op, result |-> result])

CallGetEventType ==
  /\ IsSome(wrapper)
  /\ lastCall' = Call("getEventType", Return(Some(getEventType(Get(wrapper)))))
  /\ firstCall' = IF IsSome(firstCall) THEN firstCall ELSE Call("getEventType", Return(Some(getEventType(Get(wrapper)))))
  /\ UNCHANGED <<handlerVars, formatVars, sendVars, wrapper>>

CallGetPayload ==
  /\ IsSome(wrapper)
  /\ lastCall' = Call("getPayload", getPayload(Get(wrapper)))
  /\ firstCall' = IF IsSome(firstCall) THEN firstCall ELSE Call("getPayload", getPayload(Get(wrapper)))
  /\ UNCHANGED <<handlerVars, formatVars, sendVars, wrapper>>

\* variant: getMessage() serializes the contacts of a contacts message again
\* and stores the text in the raw unit
CallGetMessageStoresText ==
  /\ IsSome(wrapper)
  /\ lastCall' = Call("getMessage", getMessage(Get(wrapper)))
  /\ firstCall' = IF IsSome(firstCall) THEN firstCall ELSE Call("getMessage", getMessage(Get(wrapper)))
  /\ wrapper' = IF ~IsStatusUnit(Get(wrapper).raw) /\ IsSome(Get(wrapper).raw.text)
                  THEN Some([Get(wrapper) EXCEPT !.raw.text = Some(TextObject("text"))])
                  ELSE wrapper
  /\ UNCHANGED <<handlerVars, formatVars, sendVars>>

CallGetMessage ==
  /\ IsSome(wrapper)
  /\ lastCall' = Call("getMessage", getMessage(Get(wrapper)))
  /\ firstCall' = IF IsSome(firstCall) THEN firstCall ELSE Call("getMessage", getMessage(Get(wrapper)))
  /\ UNCHANGED <<handlerVars, formatVars, sendVars, wrapper>>

CallGetSenderForeignId ==
  /\ IsSome(wrapper)
  /\ lastCall' = Call("getSenderForeignId", getSenderForeignId(Get(wrapper)))
  /\ firstCall' = IF IsSome(firstCall) THEN firstCall ELSE Call("getSenderForeignId", getSenderForeignId(Get(wrapper)))
  /\ UNCHANGED <<handlerVars, formatVars, sendVars, wrapper>>

CallGetDeliveredMessages ==
  /\ IsSome(wrapper)
  /\ lastCall' = Call("getDeliveredMessages", getDeliveredMessages(Get(wrapper)))
  /\ firstCall' = IF IsSome(firstCall) THEN firstCall ELSE Call("getDeliveredMessages", getDeliveredMessages(Get(wrapper)))
  /\ UNCHANGED <<handlerVars, formatVars, sendVars, wrapper>>

CallGetId ==
  /\ IsSome(wrapper)
  /\ lastCall' = Call("getId", getId(Get(wrapper)))
  /\ firstCall' = IF IsSome(firstCall) THEN firstCall ELSE Call("getId", getId(Get(wrapper)))
  /\ UNCHANGED <<handlerVars, formatVars, sendVars, wrapper>>

CallGetRecipientForeignId ==
  /\ IsSome(wrapper)
  /\ lastCall' = Call("getRecipientForeignId", getRecipientForeignId(Get(wrapper)))
  /\ firstCall' = IF IsSome(firstCall) THEN firstCall ELSE Call("getRecipientForeignId", getRecipientForeignId(Get(wrapper)))
  /\ UNCHANGED <<handlerVars, formatVars, sendVars, wrapper>>

CallGetWatermark ==
  /\ IsSome(wrapper)
  /\ lastCall' = Call("getWatermark", getWatermark(Get(wrapper)))
  /\ firstCall' = IF IsSome(firstCall) THEN firstCall ELSE Call("getWatermark", getWatermark(Get(wrapper)))
  /\ UNCHANGED <<handlerVars, formatVars, sendVars, wrapper>>

NextWrapper ==
  \/ Construct
  \/ fetchAndStoreMedia
  \/ CallGetEventType
  \/ CallGetPayload
  \/ CallGetMessage
  \/ CallGetSenderForeignId
  \/ CallGetDeliveredMessages
  \/ CallGetId
  \/ CallGetRecipientForeignId
  \/ CallGetWatermark

SpecWrapper == Init /\ [][NextWrapper]_vars


-----------------------------------------------------------------------------
(* The outbound translator: WhatsAppHandler._formatMessage and the format   *)
(* functions it dispatches to (src/index.channel.ts, lines 295-525)         *)

\* the string of n characters whose i-th character depends on i
StringOfLen(n) == [i \in 1..n |-> <<"a", "b", "c", "d", "e", "f", "g", "h", "i", "j">>[(i % 10) + 1]]

Ellipsis == <<".", ".", ".">>

\* the limit _listFormat gives to truncateText
DescriptionLimit == 72

\* Button: postback buttons carry a payload, web_url buttons a url
Buttons ==
  {[type |-> "postback", title |-> "One", payload |-> "p1"],
   [type |-> "postback", title |-> "Two", payload |-> "p2"],
   [type |-> "web_url", title |-> "Site", url |-> "https://example.org"]}

Texts == {"Hi", ""}

Envelope(format, message) == [format |-> format, message |-> message]

\* ContentOptions of a list or carousel block
ContentOptions(display, buttons) ==
  [display |-> display, fields |-> [title |-> "title", subtitle |-> "subtitle"], buttons |-> buttons, limit |-> MaxElements]

\* list and carousel envelopes; the subtitles of the elements are absent,
\* empty, one character long, or of the lengths around the limit
ListEnvelopes ==
  {Envelope(f, [options |-> ContentOptions(f, b), elements |-> e]) :
     f \in {"list", "carousel"},
     b \in SeqsUpTo(Buttons, MaxListButtons),
     e \in SeqsUpTo({[id |-> "c1", title |-> t, subtitle |-> d] :
                       t \in {"Row A", "Row B"},
                       d \in {None} \cup {Some(StringOfLen(n)) :
                                            n \in {0, 1} \cup ((DescriptionLimit - 3)..MaxDescLen)}},
                    MaxElements)}

Envelopes ==
  {Envelope("text", [text |-> t]) : t \in Texts}
    \cup {Envelope("quickReplies", [text |-> t, quickReplies |-> q]) :
            t \in Texts,
            q \in SeqsUpTo({[content_type |-> "text", title |-> "Yes", payload |-> "yes"],
                            [content_type |-> "text", title |-> "No", payload |-> "no"]},
                           MaxButtons)}
    \cup {Envelope("buttons", [text |-> t, buttons |-> b]) :
            t \in Texts, b \in SeqsUpTo(Buttons, MaxButtons)}
    \cup ListEnvelopes
    \cup {Envelope("attachment", [attachment |-> [type |-> t, payload |-> [id |-> id]]]) :
            t \in {"image", "video", "audio", "file", "unknown"}, id \in AttachmentIds}
    \cup {Envelope("system", [outcome |-> None])}

\* BlockOptions: the content options of the block for list and carousel
BlockOptions(e) ==
  [content |-> IF e.format \in {"list", "carousel"} THEN Some(e.message.options) ELSE None]

\* Content.getPayload, i18n.t and getPublicUrl are the host's; their
\* applications are left uninterpreted
ContentPayload(item) == <<"Content.getPayload", item>>

Translate(key, args) == <<"i18n.t", key, args>>

PublicUrl(payload) == <<"getPublicUrl", payload>>

\* variant: the text is cut at maxLength before the ellipsis is added
truncateTextAtLimit(text, maxLength) ==
  IF Len(text) <= maxLength THEN text ELSE SubSeq(text, 1, maxLength) \o Ellipsis

truncateText(text, maxLength) ==
  IF Len(text) <= maxLength THEN text ELSE SubSeq(text, 1, maxLength - 3) \o Ellipsis

Media(link) == [link |-> link]

\* variant: every file type other than image, audio and video is sent as a document
_attachmentFormatDocumentByDefault(message) ==
  LET media == Media(PublicUrl(message.attachment.payload))
  IN IF message.attachment.type \in {"image", "audio", "video"}
       THEN Return(Some([type |-> message.attachment.type] @@ (message.attachment.type :> media)))
       ELSE Return(Some([type |-> "document", document |-> media]))

_attachmentFormat(message) ==
  LET media == Media(PublicUrl(message.attachment.payload))
  IN CASE message.attachment.type = "image" -> Return(Some([type |-> "image", image |-> media]))
       [] message.attachment.type = "audio" -> Return(Some([type |-> "audio", audio |-> media]))
       [] message.attachment.type = "video" -> Return(Some([type |-> "video", video |-> media]))
       [] message.attachment.type = "file" -> Return(Some([type |-> "document", document |-> media]))
       [] OTHER -> Throw("Unknown file type!")

\* variant: the row title is the id of the element
RowIdAsTitle(item, fields) ==
  [id |-> ContentPayload(item), title |-> item.id, description |-> None]

Row(item, fields) ==
  [id |-> ContentPayload(item),
   title |-> item[fields.title],
   description |-> IF TruthyChars(item[fields.subtitle])
                     THEN Some(truncateText(Get(item[fields.subtitle]), DescriptionLimit))
                     ELSE None]

_listFormat(message, options) ==
  IF ~IsSome(options.content) \/ message.options.buttons = <<>>
    THEN Throw("TypeError")
    ELSE LET fields == Get(options.content).fields
             rows == [i \in 1..Len(message.elements) |-> Row(message.elements[i], fields)]
             btnText == message.options.buttons[1].title
         IN Return(Some(
              [type |-> "interactive",
               interactive |->
                 [type |-> "list",
                  body |-> [text |-> Translate("Click on \"{btnText}\" to display the list:",
                                               [btnText |-> btnText])],
                  action |-> [sections |-> <<[title |-> "Section", rows |-> rows]>>,
                              button |-> btnText]]]))

\* variant: a carousel is sent as a text
_carouselFormatAsText(message, options) ==
  Return(Some([type |-> "text", text |-> [body |-> "carousel"]]))

_carouselFormat(message, options) == _listFormat(message, options)

_textFormat(message) == Return(Some([type |-> "text", text |-> [body |-> message.text]]))

ReplyButton(id, title) == [type |-> "reply", reply |-> [id |-> id, title |-> title]]

InteractiveButtons(text, buttons) ==
  [type |-> "interactive",
   interactive |-> [type |-> "button", body |-> [text |-> text], action |-> [buttons |-> buttons]]]

_quickRepliesFormat(message) ==
  LET buttons == [i \in 1..Len(message.quickReplies) |->
                    ReplyButton(message.quickReplies[i].payload, message.quickReplies[i].title)]
  IN Return(Some(InteractiveButtons(message.text, buttons)))

IsPostbackButton(btn) == btn.type = "postback"

\* variant: no button is filtered out; a web_url button gives its url as id
_buttonsFormatUnfiltered(message) ==
  LET buttons == [i \in 1..Len(message.buttons) |->
                    ReplyButton(IF IsPostbackButton(message.buttons[i])
                                  THEN message.buttons[i].payload ELSE message.buttons[i].url,
                                message.buttons[i].title)]
  IN Return(Some(InteractiveButtons(message.text, buttons)))

_buttonsFormat(message) ==
  LET postbacks == SelectSeq(message.buttons, IsPostbackButton)
      buttons == [i \in 1..Len(postbacks) |-> ReplyButton(postbacks[i].payload, postbacks[i].title)]
  IN Return(Some(InteractiveButtons(message.text, buttons)))

_formatMessage(e, options) ==
  CASE e.format = "buttons" -> _buttonsFormat(e.message)
    [] e.format = "carousel" -> _carouselFormat(e.message, options)
    [] e.format = "list" -> _listFormat(e.message, options)
    [] e.format = "quickReplies" -> _quickRepliesFormat(e.message)
    [] e.format = "text" -> _textFormat(e.message)
    [] e.format = "attachment" -> _attachmentFormat(e.message)
    [] OTHER -> Throw("Unknown message format")

\* the host hands an envelope and the options of its block to the handler
Compose ==
  /\ envelope = None
  /\ \E e \in Envelopes : envelope' = Some([envelope |-> e, options |-> BlockOptions(e)])
  /\ wire' = None
  /\ UNCHANGED <<handlerVars, wrapperVars, sendVars>>

CallFormatMessage ==
  /\ IsSome(envelope)
  /\ wire = None
  /\ wire' = Some(_formatMessage(Get(envelope).envelope, Get(envelope).options))
  /\ UNCHANGED <<handlerVars, wrapperVars, sendVars, envelope>>

NextFormat ==
  \/ Compose
  \/ CallFormatMessage

SpecFormat == Init /\ [][NextFormat]_vars


-----------------------------------------------------------------------------
(* The transport: GraphApi (src/lib/graph-api.ts), MediaAPI                  *)
(* (src/lib/media-api.ts), ProfileAPI (src/lib/profile-api.ts), and         *)
(* WhatsAppHandler.init, sendMessage and onAccessTokenUpdate                *)

\* values of the access token: the default '' and two configured tokens
AccessTokens == {"", "tokA", "tokB"}

\* new GraphApi(httpService, accessToken); accessToken is private readonly
GraphApi(accessToken) == [accessToken |-> accessToken]

\* this.api
ThisApi == api[Len(api)]

\* a thrown Error with its message; response is set on the errors of axios only
Failure(message, response) ==
  [outcome |-> "throw", value |-> None, error |-> [message |-> message, response |-> response]]

\* String.prototype.toUpperCase on a method name
ToUpperCase(method) ==
  CASE method = "get" -> "GET"
    [] method = "post" -> "POST"
    [] OTHER -> method

\* GraphRequestOptions
RequestOptions(path, method, payload) == [path |-> path, method |-> method, payload |-> payload]

\* GraphApi.sendRequest up to its await: the error it throws, or the request it
\* hands to axios (every payload is an object)
sendRequest(client, options) ==
  IF options.path = <<>>
    THEN Failure("Valid \"path\" property required", None)
  ELSE IF client.accessToken = ""
    THEN Failure("WhatsApp access token is not set!", None)
  ELSE [outcome |-> "request",
        url |-> <<"https://graph.facebook.com", "/v20.0">> \o options.path,
        method |-> IF IsSome(options.method) THEN ToUpperCase(Get(options.method))
                   ELSE IF IsSome(options.payload) THEN "POST" ELSE "GET",
        headers |-> [Authorization |-> <<"Bearer ", client.accessToken>>],
        data |-> options.payload]

\* `/${wsBusinessPhoneNumberId}/messages`
MessagesPath(wsBusinessPhoneNumberId) == <<"/", wsBusinessPhoneNumberId, "/messages">>

\* `/${mediaId}?phone_number_id=${phoneNumberId}`
MediaPath(mediaId, phoneNumberId) == <<"/", mediaId, "?phone_number_id=", phoneNumberId>>

\* `/${phoneNumberID}`
ProfilePath(phoneNumberID) == <<"/", phoneNumberID>>

\* the events the host answers: a text message and a delivery status
SendEvents ==
  {NewWrapper([BaseMessage("text") EXCEPT !.text = Some(TextObject("hello"))],
              [metadata |-> Metadata, contact |-> None], Pos(1, 1, "messages", 1)),
   NewWrapper(Status("wamid.1", "delivered"),
              [metadata |-> Metadata, contact |-> None], Pos(1, 1, "statuses", 1))}

\* the envelopes the host sends: two that translate and two that do not
SendEnvelopes ==
  {Envelope("text", [text |-> "Hi"]),
   Envelope("attachment", [attachment |-> [type |-> "file", payload |-> [id |-> "att1"]]]),
   Envelope("attachment", [attachment |-> [type |-> "unknown", payload |-> [id |-> "att1"]]]),
   Envelope("system", [outcome |-> None])}

\* what sendMessage is called with: every envelope for a message event, and
\* a translating one for an event without a sender
SendInputs ==
  {[event |-> event, envelope |-> e, options |-> BlockOptions(e)] :
     event \in {ev \in SendEvents : ev.adapter.eventType = "message"}, e \in SendEnvelopes}
  \cup {[event |-> event, envelope |-> e, options |-> BlockOptions(e)] :
          event \in SendEvents, e \in {en \in SendEnvelopes : en.format = "text"}}

\* the answers of the provider with a status outside 2xx, with their error body
ErrorResponses ==
  {[status |-> 401, data |-> [error |-> "OAuthException"]],
   [status |-> 500, data |-> [error |-> "Unknown"]]}

\* the error axios rejects with on a status outside 2xx
AxiosError(response) == Failure("Request failed", Some(response))

\* a call of a transport operation that has started
StartedCall(kind, input, pcValue, start) ==
  [pc |-> pcValue, kind |-> kind, input |-> input, start |-> start, client |-> 0,
   requests |-> <<>>, response |-> None, result |-> None]

\* the call ends with result; it issued no request in this step
Ended(call, result) == [call EXCEPT !.pc = "done", !.result = Some(result)]

\* the call hands request to axios with the client of index k and awaits the answer
Awaiting(call, k, request) ==
  [call EXCEPT !.pc = "http", !.client = k, !.requests = Append(@, request)]

\* the call has read the client of index k and that client threw before any request
Refused(call, k, result) == [call EXCEPT !.pc = "done", !.client = k, !.result = Some(result)]

\* WhatsAppHandler.init: the first client, with the token of the settings
init ==
  /\ api = <<>>
  /\ \E token \in AccessTokens : api' = <<GraphApi(token)>>
  /\ UNCHANGED <<handlerVars, wrapperVars, formatVars, calls>>

\* variant: the token of the cached client is overwritten in place
onAccessTokenUpdateInPlace ==
  /\ api # <<>>
  /\ \E value \in AccessTokens : api' = [api EXCEPT ![Len(api)] = GraphApi(value)]
  /\ UNCHANGED <<handlerVars, wrapperVars, formatVars, calls>>

\* this.api = new GraphApi(this.httpService, setting.value)
onAccessTokenUpdate ==
  /\ api # <<>>
  /\ Len(api) <= MaxUpdates
  /\ \E value \in AccessTokens : api' = Append(api, GraphApi(value))
  /\ UNCHANGED <<handlerVars, wrapperVars, formatVars, calls>>

\* WhatsAppHandler.sendMessage up to `await this._formatMessage(...)`
CallSendMessage(i) ==
  /\ calls[i] = NoCall
  /\ \A j \in 1..(i - 1) : calls[j] # NoCall
  /\ api # <<>>
  /\ \E input \in SendInputs :
       calls' = [calls EXCEPT ![i] = StartedCall("sendMessage", input, "format", Len(api))]
  /\ UNCHANGED <<handlerVars, wrapperVars, formatVars, api>>

\* { messaging_product, recipient_type, to, ...message }
MessageBody(event, message) ==
  message @@ [messaging_product |-> "whatsapp", recipient_type |-> "individual",
              to |-> getSenderForeignId(event.adapter).value]

\* variant: an envelope that does not translate is posted as it is
TransportSendMessageUntranslated(i) ==
  /\ calls[i].pc = "format"
  /\ LET call == calls[i]
         message == _formatMessage(call.input.envelope, call.input.options)
         path == MessagesPath(call.input.event.channelData.metadata.phone_number_id)
         body == IF message.outcome = "throw" THEN call.input.envelope.message
                 ELSE Get(message.value)
         attempt == sendRequest(ThisApi,
                                RequestOptions(path, None,
                                               Some(MessageBody(call.input.event, body))))
     IN calls' = [calls EXCEPT ![i] =
                    IF attempt.outcome = "throw" THEN Refused(call, Len(api), attempt)
                    ELSE Awaiting(call, Len(api), attempt)]
  /\ UNCHANGED <<handlerVars, wrapperVars, formatVars, api>>

\* WhatsAppHandler.sendMessage from the result of _formatMessage up to the
\* await in GraphApi.sendRequest: a translation error leaves the function, an
\* error of the client is caught, logged and thrown again
TransportSendMessage(i) ==
  /\ calls[i].pc = "format"
  /\ LET call == calls[i]
         message == _formatMessage(call.input.envelope, call.input.options)
         path == MessagesPath(call.input.event.channelData.metadata.phone_number_id)
         attempt == sendRequest(ThisApi,
                                RequestOptions(path, None,
                                               Some(MessageBody(call.input.event, Get(message.value)))))
     IN calls' = [calls EXCEPT ![i] =
                    IF message.outcome = "throw" THEN Ended(call, Failure(message.error, None))
                    ELSE IF attempt.outcome = "throw" THEN Refused(call, Len(api), attempt)
                    ELSE Awaiting(call, Len(api), attempt)]
  /\ UNCHANGED <<handlerVars, wrapperVars, formatVars, api>>

\* MediaAPI.getMediaUrl up to the await in GraphApi.sendRequest; an error of
\* sendRequest is caught and replaced
CallGetMediaUrl(i) ==
  /\ calls[i] = NoCall
  /\ \A j \in 1..(i - 1) : calls[j] # NoCall
  /\ api # <<>>
  /\ \E mediaId \in {"media1", ""} :
       LET call == StartedCall("getMediaUrl",
                               [mediaId |-> mediaId, phoneNumberId |-> Metadata.phone_number_id],
                               "idle", Len(api))
           attempt == sendRequest(ThisApi,
                                  RequestOptions(MediaPath(mediaId, Metadata.phone_number_id),
                                                 Some("GET"), None))
       IN calls' = [calls EXCEPT ![i] =
                      IF mediaId = "" THEN Ended(call, Failure("Media ID is required", None))
                      ELSE IF attempt.outcome = "throw"
                        THEN Refused(call, Len(api), Failure("Failed to retrieve media URL", None))
                      ELSE Awaiting(call, Len(api), attempt)]
  /\ UNCHANGED <<handlerVars, wrapperVars, formatVars, api>>

\* ProfileAPI.getUserProfile up to the await in GraphApi.sendRequest
CallGetUserProfile(i) ==
  /\ calls[i] = NoCall
  /\ \A j \in 1..(i - 1) : calls[j] # NoCall
  /\ api # <<>>
  /\ \E phoneNumberID \in {"pn1", ""} :
       LET call == StartedCall("getUserProfile", [phoneNumberID |-> phoneNumberID], "idle", Len(api))
           attempt == sendRequest(ThisApi,
                                  RequestOptions(ProfilePath(phoneNumberID), Some("GET"), None))
       IN calls' = [calls EXCEPT ![i] =
                      IF phoneNumberID = "" THEN Ended(call, Failure("Phone number ID is required", None))
                      ELSE IF attempt.outcome = "throw" THEN Refused(call, Len(api), attempt)
                      ELSE Awaiting(call, Len(api), attempt)]
  /\ UNCHANGED <<handlerVars, wrapperVars, formatVars, api>>

\* the answers with a 2xx status that the provider gives to an operation
OkResponses(kind) ==
  CASE kind = "sendMessage" ->
         {[status |-> 200,
           data |-> [messaging_product |-> "whatsapp",
                     messages |-> <<[id |-> "wamid.o1"], [id |-> "wamid.o2"]>>]]}
    [] kind = "getMediaUrl" ->
         {[status |-> 200, data |-> [url |-> "https://cdn.example/m1", id |-> "media1"]]}
    [] kind = "getUserProfile" ->
         {[status |-> 200, data |-> Some([id |-> "pn1"])], [status |-> 200, data |-> None]}

\* variant: the id of the last message of the response
MidOfLastMessage(data) == data.messages[Len(data.messages)].id

\* res.messages[0].id
Mid(data) == data.messages[1].id

\* what the operation returns from the data of a 2xx answer
OnData(kind, data) ==
  CASE kind = "sendMessage" -> Return(Some([mid |-> Mid(data)]))
    [] kind = "getMediaUrl" -> Return(Some(data))
    [] kind = "getUserProfile" ->
         IF IsSome(data) THEN Return(data)
         ELSE Failure("Failed to retrieve user profile data", None)

\* what the operation throws when axios rejects: getMediaUrl replaces the
\* error, sendMessage logs it and throws it again, getUserProfile lets it pass
OnRejection(kind, response) ==
  CASE kind = "getMediaUrl" -> Failure("Failed to retrieve media URL", None)
    [] kind = "sendMessage" -> AxiosError(response)
    [] kind = "getUserProfile" -> AxiosError(response)

\* the provider answers the request of call i with a 2xx status
ProviderAccepts(i) ==
  /\ calls[i].pc = "http"
  /\ \E response \in OkResponses(calls[i].kind) :
       calls' = [calls EXCEPT ![i] =
                   [Ended(calls[i], OnData(calls[i].kind, response.data))
                      EXCEPT !.response = Some(response)]]
  /\ UNCHANGED <<handlerVars, wrapperVars, formatVars, api>>

\* the provider answers the request of call i with another status
ProviderRejects(i) ==
  /\ calls[i].pc = "http"
  /\ \E response \in ErrorResponses :
       calls' = [calls EXCEPT ![i] =
                   [Ended(calls[i], OnRejection(calls[i].kind, response))
                      EXCEPT !.response = Some(response)]]
  /\ UNCHANGED <<handlerVars, wrapperVars, formatVars, api>>

NextSend ==
  \/ init
  \/ onAccessTokenUpdate
  \/ \E i \in 1..MaxCalls : CallSendMessage(i)
  \/ \E i \in 1..MaxCalls : TransportSendMessage(i)
  \/ \E i \in 1..MaxCalls : CallGetMediaUrl(i)
  \/ \E i \in 1..MaxCalls : CallGetUserProfile(i)
  \/ \E i \in 1..MaxCalls : ProviderAccepts(i)
  \/ \E i \in 1..MaxCalls : ProviderRejects(i)

\* the transport reads neither app_secret nor verify_token: one value of each
InitSend == Init /\ settings = [app_secret |-> 1, verify_token |-> "t1"]

SpecSend == InitSend /\ [][NextSend]_vars


-----------------------------------------------------------------------------
(* Properties of handle() *)

IsPost == IsSome(req) /\ Get(req).method = "POST"

IsGet == IsSome(req) /\ Get(req).method = "GET"

\* the hash h is what the header carries after its first '=' (up to the next one)
HeaderCarriesHash(sig, h) ==
  \E i \in 1..Len(sig) :
    /\ sig[i] = "="
    /\ \A j \in 1..(i - 1) : sig[j] # "="
    /\ Len(sig) >= i + Len(h)
    /\ SubSeq(sig, i + 1, i + Len(h)) = h
    /\ (Len(sig) > i + Len(h) => sig[i + Len(h) + 1] = "=")

\* the request carries a signature header whose hash is the HMAC of its raw body
SignedRight ==
  /\ IsPost
  /\ IsSome(Get(req).signature)
  /\ HeaderCarriesHash(Get(Get(req).signature), Hmac(settings.app_secret, Get(req).rawBody))

\* the request passed the signature and the shape validation
Validated ==
  /\ SignedRight
  /\ Get(req).body.object = Some("whatsapp_business_account")
  /\ IsSome(Get(req).body.entry)

Answered(status) == IsSome(resp) /\ Get(resp).status = status

AnsweredErr(status) == Answered(status) /\ Get(resp).body[1] = "err"

AnsweredSuccess == Answered(200) /\ Get(resp).body = <<"success", TRUE>>

\* the units of the payload, by position
UnitsOf(value, kind) == IF kind = "messages" THEN ValueMessages(value) ELSE ValueStatuses(value)

AllPositions ==
  {p \in (1..MaxEntries + 1) \X (1..MaxChanges + 1) \X {"messages", "statuses"} \X (1..MaxUnits + 1) :
     /\ p[1] <= Len(EntryList)
     /\ p[2] <= Len(EntryList[p[1]].changes)
     /\ p[4] <= Len(UnitsOf(EntryList[p[1]].changes[p[2]].value, p[3]))}

UnitAt(p) == UnitsOf(EntryList[p[1]].changes[p[2]].value, p[3])[p[4]]

EmittedPositions == {emitted[i].event.pos : i \in 1..Len(emitted)}

BuiltPositions == {built[i] : i \in 1..Len(built)}

LoggedPositions == {logged[i] : i \in 1..Len(logged)}

\* a unit whose own processing fails: its wrapper cannot be built (a message of
\* a change without contacts) or a listener threw while it was emitted
UnitFails(p) ==
  \/ p \in LoggedPositions
  \/ p[3] = "messages" /\ ~IsSome(EntryList[p[1]].changes[p[2]].value.contacts)

\* C1: once handle() is over for a validated POST, every unit of the batch that
\* did not itself fail has been emitted, whatever happened to the other units.
C1_FailureDoesNotBlockSiblings ==
  (pc = "done" /\ Validated) => \A p \in AllPositions : ~UnitFails(p) => p \in EmittedPositions

\* C2: a validated POST has received 200 {success: true} when handle() is over.
C2_ValidatedPostAnswered200 ==
  (pc = "done" /\ Validated) => AnsweredSuccess

\* payload order: by entry, then change, then messages before statuses, then index
KindRank(kind) == IF kind = "messages" THEN 1 ELSE 2

PosBefore(p, q) ==
  \/ p[1] < q[1]
  \/ p[1] = q[1] /\ p[2] < q[2]
  \/ p[1] = q[1] /\ p[2] = q[2] /\ KindRank(p[3]) < KindRank(q[3])
  \/ p[1] = q[1] /\ p[2] = q[2] /\ p[3] = q[3] /\ p[4] < q[4]

NoUnitFailed == ~threw /\ logged = <<>>

C4_EmissionInPayloadOrder ==
  \A i \in 1..Len(emitted) : \A j \in 1..Len(emitted) :
    i < j => PosBefore(emitted[i].event.pos, emitted[j].event.pos)

C4_Witness ==
  /\ pc = "done"
  /\ Len(emitted) = 3
  /\ emitted[1].event.pos[3] = "messages"
  /\ emitted[2].event.pos = <<emitted[1].event.pos[1], emitted[1].event.pos[2], "statuses", 1>>
  /\ emitted[3].event.pos[1] > emitted[1].event.pos[1]

SignatureRejected ==
  resp = Json(500, Err("Couldn't match the request signature."))

\* C5: a POST whose header carries a hash passes the signature check exactly
\* when that hash is the HMAC of the raw body under the app secret; otherwise
\* it is answered 500 {err} and no wrapper is built and no event emitted.
C5_SignatureGate ==
  (IsPost /\ IsSome(Get(req).signature) /\ pc \notin {"idle", "middleware", "handle"}) =>
    /\ SignedRight <=> ~SignatureRejected
    /\ ~SignedRight => pc = "done" /\ AnsweredErr(500) /\ built = <<>> /\ emitted = <<>>

C5_Witness ==
  /\ pc = "validate"
  /\ SignedRight
  /\ Len(Get(Get(req).signature)) = MaxHeaderLen

\* C6: a rightly signed POST without object == 'whatsapp_business_account' is
\* answered 400 {err}, one with the object but without entry 500 {err}; in both
\* cases no wrapper is built and no event is emitted.
C6_ShapeErrors ==
  (pc = "done" /\ SignedRight) =>
    /\ Get(req).body.object # Some("whatsapp_business_account") =>
         AnsweredErr(400) /\ built = <<>> /\ emitted = <<>>
    /\ (Get(req).body.object = Some("whatsapp_business_account") /\ ~IsSome(Get(req).body.entry)) =>
         AnsweredErr(500) /\ built = <<>> /\ emitted = <<>>

C6_Witness ==
  /\ pc = "done" /\ SignedRight
  /\ Get(req).body.object = Some("page")
  /\ IsSome(Get(req).body.entry) /\ Get(Get(req).body.entry) # <<>>
  /\ AnsweredErr(400)

TokenMatches ==
  /\ settings.verify_token # ""
  /\ Get(req).query.mode = Some("subscribe")
  /\ Get(req).query.verify_token = Some(settings.verify_token)

\* C7: a GET is answered 200 with body hub.challenge exactly when a verify
\* token is configured, hub.mode is 'subscribe' and hub.verify_token is the
\* configured token; otherwise 500 {err}; no event is emitted for a GET.
C7_SubscribeHandshake ==
  IsGet =>
    /\ built = <<>> /\ emitted = <<>>
    /\ pc = "done" =>
         /\ TokenMatches <=> Answered(200)
         /\ TokenMatches => Get(resp).body = <<"send", Get(req).query.challenge>>
         /\ ~TokenMatches => AnsweredErr(500)

C7_Witness ==
  /\ IsGet /\ pc = "done"
  /\ Answered(200)
  /\ Get(resp).body = <<"send", Some("c1")>>


-----------------------------------------------------------------------------
(* Properties of the event wrapper *)

Adapter == Get(wrapper)

\* C8: a Status unit is classified delivery when its status is 'delivered',
\* read when it is 'read', unknown for any other status; no subtype is set.
C8_StatusClassification ==
  (IsSome(wrapper) /\ IsStatusUnit(Adapter.raw)) =>
    /\ Adapter.raw.status = "delivered" => Adapter.eventType = "delivery"
    /\ Adapter.raw.status = "read" => Adapter.eventType = "read"
    /\ Adapter.raw.status \in {"sent", "failed", "deleted"} => Adapter.eventType = "unknown"
    /\ Adapter.messageType = None

C8_Witness ==
  /\ IsSome(wrapper) /\ IsStatusUnit(Adapter.raw)
  /\ Adapter.raw.status = "failed"
  /\ Adapter.eventType = "unknown"
  /\ IsSome(lastCall) /\ Get(lastCall) = [op |-> "getEventType", result |-> Return(Some("unknown"))]

\* C9: a Message unit is classified by its type tag: text, contacts ->
\* message/plain-text; image, audio, video, document, sticker ->
\* message/attachment; button, interactive -> message/postback; location ->
\* message/location; any other tag -> unknown without subtype.
C9_MessageClassification ==
  (IsSome(wrapper) /\ ~IsStatusUnit(Adapter.raw)) =>
    LET type == Adapter.raw.type
        class == <<Adapter.eventType, Adapter.messageType>>
    IN /\ type \in {"text", "contacts"} => class = <<"message", Some("message")>>
       /\ type \in MediaTypes => class = <<"message", Some("attachments")>>
       /\ type \in {"button", "interactive"} => class = <<"message", Some("postback")>>
       /\ type = "location" => class = <<"message", Some("location")>>
       /\ type \notin {"text", "contacts", "button", "interactive", "location"} \cup MediaTypes =>
            class = <<"unknown", None>>

C9_Witness ==
  /\ IsSome(wrapper) /\ ~IsStatusUnit(Adapter.raw)
  /\ Adapter.raw.type = "contacts"
  /\ Len(Get(Adapter.raw.contacts)) = MaxContacts
  /\ Adapter.eventType = "message" /\ Adapter.messageType = Some("message")

IsMediaWrapper == IsSome(wrapper) /\ ~IsStatusUnit(Adapter.raw) /\ Adapter.raw.type \in MediaTypes

Called(op) == IsSome(lastCall) /\ Get(lastCall).op = op

Result == Get(lastCall).result

\* C10: on a media message, getPayload() and getMessage() throw the
\* missing-attachment error while no attachment is linked, and once one is
\* linked return an attachment payload that carries the id of that attachment.
C10_AttachmentBeforeAndAfter ==
  IsMediaWrapper =>
    /\ (Called("getPayload") /\ ~IsSome(Adapter.attachment)) =>
         Result = Throw("Unable to find attachment")
    /\ (Called("getMessage") /\ ~IsSome(Adapter.attachment)) =>
         Result = Throw("Unable to find attachment")
    /\ (Called("getPayload") /\ IsSome(Adapter.attachment)) =>
         /\ Result.outcome = "return"
         /\ Get(Result.value).type = "attachments"
         /\ Get(Result.value).attachments.payload.id = Get(Adapter.attachment).id
    /\ (Called("getMessage") /\ IsSome(Adapter.attachment)) =>
         /\ Result.outcome = "return"
         /\ Get(Result.value).type = "attachments"
         /\ Get(Result.value).attachment.payload.id = Get(Adapter.attachment).id

C10_Witness ==
  /\ IsMediaWrapper
  /\ Adapter.attachment = Some(StoredAttachment("att2", Get(Adapter.raw.media)))
  /\ Called("getPayload")
  /\ Result.outcome = "return"


-----------------------------------------------------------------------------
(* Properties of the accessors *)

IsNonMessage == IsSome(wrapper) /\ Adapter.eventType # "message"

\* C11: getMessage() called on a wrapper whose event type is not message
\* (delivery, read, unknown) fails with an error; it never returns a value.
C11_GetMessageFailsOnNonMessage ==
  (IsNonMessage /\ Called("getMessage")) => Result.outcome = "throw"

IsPlainText == IsSome(wrapper) /\ Adapter.eventType = "message" /\ Adapter.messageType = Some("message")

\* C12: getPayload() returns undefined, without error, on every non-message
\* wrapper and on every plain-text message; it returns a payload only on
\* postback, location and attachment messages.
C12_PayloadOnlyForPostbackLocationAttachment ==
  (IsSome(wrapper) /\ Called("getPayload")) =>
    /\ (IsNonMessage \/ IsPlainText) => Result = Return(None)
    /\ (Result.outcome = "return" /\ IsSome(Result.value)) =>
         /\ Adapter.eventType = "message"
         /\ Adapter.messageType \in {Some("postback"), Some("location"), Some("attachments")}

C12_Witness ==
  /\ IsPlainText /\ Adapter.raw.type = "text"
  /\ Called("getPayload")
  /\ Result = Return(None)

\* C13: getDeliveredMessages() returns the one-element list holding the id of
\* the unit when the unit is a Status with status 'delivered', and the empty
\* list for every other unit.
C13_DeliveredMessages ==
  (IsSome(wrapper) /\ Called("getDeliveredMessages")) =>
    IF IsStatusUnit(Adapter.raw) /\ Adapter.raw.status = "delivered"
      THEN Result = Return(<<Adapter.raw.id>>)
      ELSE Result = Return(<<>>)

C13_Witness ==
  /\ IsSome(wrapper) /\ IsStatusUnit(Adapter.raw) /\ Adapter.raw.status = "delivered"
  /\ Called("getDeliveredMessages")
  /\ Result = Return(<<"wamid.1">>)

\* the type tags that _init keeps classified as message
MessageTags == {"text", "contacts", "button", "interactive", "location"} \cup MediaTypes

\* C14: getSenderForeignId() returns the `from` of the unit when the event
\* type is message, and undefined for every other event, a Message that was
\* downgraded to unknown included.
C14_SenderForeignId ==
  (IsSome(wrapper) /\ Called("getSenderForeignId")) =>
    /\ Adapter.eventType = "message" => Result = Return(Some(Adapter.raw.from))
    /\ Adapter.eventType # "message" => Result = Return(None)
    /\ (~IsStatusUnit(Adapter.raw) /\ Adapter.raw.type \notin MessageTags) => Result = Return(None)

C14_Witness ==
  /\ IsSome(wrapper) /\ ~IsStatusUnit(Adapter.raw)
  /\ Adapter.raw.type = "order" /\ Adapter.eventType = "unknown"
  /\ Called("getSenderForeignId")
  /\ Result = Return(None)

\* the coordinate f of a location, 0 when the location or the coordinate is absent
AbsentAsZero(location, f) ==
  IF location = None THEN 0
  ELSE IF Get(location)[f] = None THEN 0 ELSE Get(Get(location)[f])

\* C15: on every location message getPayload() and getMessage() return
\* coordinates {lat, lon} equal to the latitude and longitude of the message,
\* each replaced by 0 when it is absent or the whole location is absent.
C15_LocationCoordinates ==
  (IsSome(wrapper) /\ ~IsStatusUnit(Adapter.raw) /\ Adapter.raw.type = "location"
     /\ (Called("getPayload") \/ Called("getMessage"))) =>
    /\ Result.outcome = "return"
    /\ IsSome(Result.value)
    /\ Get(Result.value).coordinates =
         [lat |-> AbsentAsZero(Adapter.raw.location, "latitude"),
          lon |-> AbsentAsZero(Adapter.raw.location, "longitude")]

C15_Witness ==
  /\ IsSome(wrapper) /\ ~IsStatusUnit(Adapter.raw) /\ Adapter.raw.type = "location"
  /\ Adapter.raw.location = Some([latitude |-> Some(36), longitude |-> None])
  /\ Called("getMessage")
  /\ Get(Result.value).coordinates = [lat |-> 36, lon |-> 0]

IsPostback == IsSome(wrapper) /\ Adapter.eventType = "message" /\ Adapter.messageType = Some("postback")

ButtonReply == Get(Adapter.raw.interactive).button_reply

ListReply == Get(Adapter.raw.interactive).list_reply

\* C16 as stated: the postback id and title are taken from button_reply when
\* it is present, otherwise from list_reply when it is present, otherwise
\* from the plain button payload/text.
C16_PostbackPrecedence ==
  IsPostback =>
    /\ (IsSome(Adapter.raw.interactive) /\ IsSome(ButtonReply)) =>
         /\ Called("getPayload") => Result = Return(Some(Get(ButtonReply).id))
         /\ Called("getMessage") =>
              Result = Return(Some([postback |-> Some(Get(ButtonReply).id),
                                    text |-> Some(Get(ButtonReply).title)]))
    /\ (IsSome(Adapter.raw.interactive) /\ ~IsSome(ButtonReply) /\ IsSome(ListReply)) =>
         /\ Called("getPayload") => Result = Return(Some(Get(ListReply).id))
         /\ Called("getMessage") =>
              Result = Return(Some([postback |-> Some(Get(ListReply).id),
                                    text |-> Some(Get(ListReply).title)]))
    /\ (~IsSome(Adapter.raw.interactive) /\ IsSome(Adapter.raw.button)) =>
         /\ Called("getPayload") => Result = Return(Some(Get(Adapter.raw.button).payload))
         /\ Called("getMessage") =>
              Result = Return(Some([postback |-> Some(Get(Adapter.raw.button).payload),
                                    text |-> Some(Get(Adapter.raw.button).text)]))

\* button_reply is present and its field f is a non-empty string
HasButtonReply(f) == IsSome(ButtonReply) /\ Get(ButtonReply)[f] # ""

\* C16 amended: the postback id and the title are each taken from
\* button_reply when it is present with a non-empty value of that field,
\* otherwise from list_reply when it is present; a button message gives its
\* plain payload and text.
C16_PostbackPrecedenceNonEmpty ==
  IsPostback =>
    /\ (IsSome(Adapter.raw.interactive) /\ HasButtonReply("id")) =>
         /\ Called("getPayload") => Result = Return(Some(Get(ButtonReply).id))
         /\ Called("getMessage") =>
              Result.outcome = "return" /\ Get(Result.value).postback = Some(Get(ButtonReply).id)
    /\ (IsSome(Adapter.raw.interactive) /\ HasButtonReply("title") /\ Called("getMessage")) =>
         Result.outcome = "return" /\ Get(Result.value).text = Some(Get(ButtonReply).title)
    /\ (IsSome(Adapter.raw.interactive) /\ ~HasButtonReply("id") /\ IsSome(ListReply)) =>
         /\ Called("getPayload") => Result = Return(Some(Get(ListReply).id))
         /\ Called("getMessage") =>
              Result.outcome = "return" /\ Get(Result.value).postback = Some(Get(ListReply).id)
    /\ (IsSome(Adapter.raw.interactive) /\ ~HasButtonReply("title") /\ IsSome(ListReply)
          /\ Called("getMessage")) =>
         Result.outcome = "return" /\ Get(Result.value).text = Some(Get(ListReply).title)
    /\ (~IsSome(Adapter.raw.interactive) /\ IsSome(Adapter.raw.button)) =>
         /\ Called("getPayload") => Result = Return(Some(Get(Adapter.raw.button).payload))
         /\ Called("getMessage") =>
              Result = Return(Some([postback |-> Some(Get(Adapter.raw.button).payload),
                                    text |-> Some(Get(Adapter.raw.button).text)]))

C16_Witness ==
  /\ IsPostback /\ IsSome(Adapter.raw.interactive)
  /\ ButtonReply = Some([id |-> "", title |-> ""])
  /\ IsSome(ListReply)
  /\ Called("getPayload")
  /\ Result = Return(Some("p2"))

\* C17: a contacts message is handled as plain text: its event type is
\* message, its subtype plain-text, and getMessage().text is the text that
\* serializeContactsToText gives for its contacts.
C17_ContactsAsPlainText ==
  (IsSome(wrapper) /\ ~IsStatusUnit(Adapter.raw) /\ Adapter.raw.type = "contacts") =>
    /\ Adapter.eventType = "message"
    /\ Adapter.messageType = Some("message")
    /\ Called("getMessage") =>
         Result = Return(Some([text |-> Some(serializeContactsToText(Get(Adapter.raw.contacts)))]))

-----------------------------------------------------------------------------
(* Properties of the outbound translator *)

Formatted == IsSome(envelope) /\ IsSome(wire)

Outgoing == Get(envelope).envelope

Options == Get(envelope).options

Wire == Get(wire)

Returned == Wire.outcome = "return" /\ IsSome(Wire.value)

Message == Get(Wire.value)

\* the media kind of the wire format for a file type of the host
MediaKind(fileType) == IF fileType = "file" THEN "document" ELSE fileType

IsInteractive(kind) == Returned /\ Message.type = "interactive" /\ Message.interactive.type = kind

\* C18: the type tag of the wire message follows the format of the envelope:
\* text gives type text with the body equal to the text; quickReplies and
\* buttons give interactive/button; list gives interactive/list; carousel
\* gives exactly what list gives on the same input; attachment gives the
\* media kind of the attachment (file as document).
C18_TypeTags ==
  Formatted =>
    /\ Outgoing.format = "text" =>
         Wire = Return(Some([type |-> "text", text |-> [body |-> Outgoing.message.text]]))
    /\ Outgoing.format \in {"quickReplies", "buttons"} => IsInteractive("button")
    /\ (Outgoing.format = "list" /\ Outgoing.message.options.buttons # <<>>) => IsInteractive("list")
    /\ (Outgoing.format = "list" /\ Returned) => IsInteractive("list")
    /\ Outgoing.format = "carousel" =>
         Wire = _formatMessage([Outgoing EXCEPT !.format = "list"], Options)
    /\ (Outgoing.format = "attachment"
          /\ Outgoing.message.attachment.type \in {"image", "audio", "video", "file"}) =>
         /\ Returned
         /\ Message.type = MediaKind(Outgoing.message.attachment.type)
         /\ Message.type \in DOMAIN Message

C18_Witness ==
  /\ Formatted
  /\ Outgoing.format = "carousel"
  /\ Len(Outgoing.message.elements) = MaxElements
  /\ IsInteractive("list")

PostbackIndices(buttons) == {i \in DOMAIN buttons : buttons[i].type = "postback"}

\* the index in buttons of the k-th postback button
KthPostback(buttons, k) ==
  CHOOSE i \in PostbackIndices(buttons) :
    Cardinality({j \in PostbackIndices(buttons) : j <= i}) = k

\* C19: for a buttons envelope the reply buttons of the wire message are
\* exactly the postback buttons of the envelope, in their original relative
\* order, each as {id = payload, title}; there are as many as postback
\* buttons, and no error is raised.
C19_PostbackButtonsOnly ==
  (Formatted /\ Outgoing.format = "buttons") =>
    /\ IsInteractive("button")
    /\ LET in == Outgoing.message.buttons
           out == Message.interactive.action.buttons
       IN /\ Len(out) = Cardinality(PostbackIndices(in))
          /\ \A k \in 1..Len(out) :
               out[k] = [type |-> "reply",
                         reply |-> [id |-> in[KthPostback(in, k)].payload,
                                    title |-> in[KthPostback(in, k)].title]]

C19_Witness ==
  /\ Formatted /\ Outgoing.format = "buttons"
  /\ Len(Outgoing.message.buttons) = 3
  /\ Outgoing.message.buttons[1].type = "postback"
  /\ Outgoing.message.buttons[2].type = "web_url"
  /\ Outgoing.message.buttons[3].type = "postback"
  /\ Outgoing.message.buttons[1] # Outgoing.message.buttons[3]
  /\ Returned
  /\ Len(Message.interactive.action.buttons) = 2

EndsWithEllipsis(text) == Len(text) >= 3 /\ SubSeq(text, Len(text) - 2, Len(text)) = Ellipsis

\* the rows of the wire message of a list or carousel
Rows == Message.interactive.action.sections[1].rows

C21_ListRowsAndLabel ==
  (Formatted /\ Outgoing.format = "list") =>
    /\ Outgoing.message.options.buttons # <<>> => Returned
    /\ Returned =>
         LET first == Outgoing.message.options.buttons[1].title
         IN /\ Len(Message.interactive.action.sections) = 1
            /\ Len(Rows) = Len(Outgoing.message.elements)
            /\ \A i \in 1..Len(Rows) :
                 /\ Rows[i].id = <<"Content.getPayload", Outgoing.message.elements[i]>>
                 /\ Rows[i].title = Outgoing.message.elements[i].title
            /\ Message.interactive.action.button = first
            /\ Message.interactive.body.text =
                 <<"i18n.t", "Click on \"{btnText}\" to display the list:", [btnText |-> first]>>

C21_Witness ==
  /\ Formatted /\ Outgoing.format = "list" /\ Returned
  /\ Len(Outgoing.message.elements) = 2
  /\ Outgoing.message.elements[1].title = "Row B"
  /\ Outgoing.message.elements[2].title = "Row A"
  /\ Len(Outgoing.message.options.buttons) = 2
  /\ Outgoing.message.options.buttons[1].title = "Two"
  /\ Outgoing.message.options.buttons[2].title = "One"
  /\ Message.interactive.action.button = "Two"
  /\ Rows[1].title = "Row B"

\* C22: the wire message of an attachment envelope carries one media object
\* {link} under the key and the type tag of the provider media kind: file
\* gives document, image, audio and video give the kind of the same name; an
\* attachment of any other kind makes the translation fail with the
\* unsupported-type error, and no message is returned.
C22_AttachmentKinds ==
  (Formatted /\ Outgoing.format = "attachment") =>
    LET kind == Outgoing.message.attachment.type
        link == <<"getPublicUrl", Outgoing.message.attachment.payload>>
    IN /\ kind \in {"image", "audio", "video"} =>
            /\ Returned
            /\ DOMAIN Message = {"type", kind}
            /\ Message.type = kind
            /\ Message[kind] = [link |-> link]
       /\ kind = "file" =>
            /\ Returned
            /\ Message = [type |-> "document", document |-> [link |-> link]]
       /\ kind \notin {"image", "audio", "video", "file"} =>
            Wire = Throw("Unknown file type!")

C22_Witness ==
  /\ Formatted /\ Outgoing.format = "attachment"
  /\ Outgoing.message.attachment.type = "unknown"
  /\ Wire.outcome = "throw"

-----------------------------------------------------------------------------
(* Properties of the accessors, continued *)

\* the accessor called last gives what it gave when it was called first
SameAsFirst ==
  (IsSome(firstCall) /\ IsSome(lastCall) /\ Get(lastCall).op = Get(firstCall).op) =>
    lastCall = firstCall

\* C28: a wrapper is terminal after construction: no step after it changes
\* its event type, its message subtype or its raw unit, and as long as its
\* attachment is the same an accessor called again, after any calls of the
\* other accessors, gives the result it gave first.
C28_ClassifierTerminal ==
  [][(IsSome(wrapper) /\ IsSome(wrapper')) =>
       /\ Get(wrapper').eventType = Get(wrapper).eventType
       /\ Get(wrapper').messageType = Get(wrapper).messageType
       /\ Get(wrapper').raw = Get(wrapper).raw
       /\ SameAsFirst']_vars

C28_Witness ==
  /\ IsSome(wrapper) /\ ~IsStatusUnit(Adapter.raw) /\ Adapter.raw.type = "contacts"
  /\ Adapter.eventType = "message"
  /\ firstCall = Call("getMessage", getMessage(Adapter))
  /\ lastCall = Call("getWatermark", Return(Some(17)))

\* C29: on every postback message, whichever of button_reply, list_reply and
\* plain button payload it carries (none of the replies included),
\* getPayload() and getMessage() both return normally and getPayload() is
\* getMessage().postback.
C29_PayloadAgreesWithMessage ==
  IsPostback =>
    /\ Called("getPayload") =>
         /\ Result.outcome = "return"
         /\ getMessage(Adapter).outcome = "return"
         /\ Result.value = Get(getMessage(Adapter).value).postback
    /\ Called("getMessage") =>
         /\ Result.outcome = "return"
         /\ getPayload(Adapter).outcome = "return"
         /\ Get(Result.value).postback = getPayload(Adapter).value

-----------------------------------------------------------------------------
(* Properties of handle(), continued *)

\* C30: a POST that carries no x-hub-signature header at all is rejected like
\* a signature mismatch: handle() answers it 500 {err} and no event is emitted.
C30_MissingSignatureRejected ==
  (IsPost /\ ~IsSome(Get(req).signature) /\ pc = "done") =>
    /\ SignatureRejected
    /\ emitted = <<>>

-----------------------------------------------------------------------------
(* Properties of the transport *)

\* the calls of one operation that have started
CallsOf(kind) == {i \in 1..MaxCalls : calls[i].pc # "idle" /\ calls[i].kind = kind}

HasEnded(i) == calls[i].pc = "done"

Outcome(i) == Get(calls[i].result)

\* what the translator gives for the envelope of a call of sendMessage
Translation(i) == _formatMessage(calls[i].input.envelope, calls[i].input.options)

\* C23: a call of sendMessage that returns has posted exactly one request, to
\* /<phone_number_id of the event's channel metadata>/messages, whose body
\* holds every field of the translated wire message, the product tag
\* 'whatsapp' and `to` = the sender id of the event, and it returns { mid }
\* with the id of the first message of the provider's response
C23_SendPostsOneRequest ==
  \A i \in CallsOf("sendMessage") :
    (HasEnded(i) /\ Outcome(i).outcome = "return") =>
      LET call == calls[i]
          message == Get(Translation(i).value)
          request == call.requests[1]
          body == Get(request.data)
      IN /\ Len(call.requests) = 1
         /\ request.method = "POST"
         /\ request.url = <<"https://graph.facebook.com", "/v20.0", "/",
                            call.input.event.channelData.metadata.phone_number_id, "/messages">>
         /\ \A k \in DOMAIN message : k \in DOMAIN body /\ body[k] = message[k]
         /\ body.messaging_product = "whatsapp"
         /\ body.to = getSenderForeignId(call.input.event.adapter).value
         /\ Outcome(i).value = Some([mid |-> Get(call.response).data.messages[1].id])

C23_Witness ==
  \E i \in CallsOf("sendMessage") :
    /\ HasEnded(i)
    /\ calls[i].input.envelope.format = "attachment"
    /\ Outcome(i) = Return(Some([mid |-> "wamid.o1"]))
    /\ Get(calls[i].requests[1].data).to = Some("15551234567")
    /\ Get(calls[i].requests[1].data).type = "document"

\* C24: a call of sendMessage whose envelope has a format outside the six, or
\* an attachment of an unsupported kind, issues no request and ends by
\* throwing the error of the translation
C24_TranslationErrorPropagates ==
  \A i \in CallsOf("sendMessage") :
    Translation(i).outcome = "throw" =>
      /\ calls[i].pc \in {"format", "done"}
      /\ calls[i].requests = <<>>
      /\ HasEnded(i) => Outcome(i) = Failure(Translation(i).error, None)

C24_Witness ==
  /\ \E i \in CallsOf("sendMessage") :
       /\ HasEnded(i)
       /\ calls[i].input.envelope.format = "system"
       /\ Outcome(i) = Failure("Unknown message format", None)
  /\ \E i \in CallsOf("sendMessage") :
       /\ HasEnded(i)
       /\ calls[i].input.envelope.format = "attachment"
       /\ Outcome(i) = Failure("Unknown file type!", None)
       /\ ThisApi.accessToken # ""

\* the calls that the provider answered with a status outside 2xx
Rejected(i) ==
  /\ calls[i].pc = "done"
  /\ IsSome(calls[i].response)
  /\ Get(calls[i].response).status \notin 200..299

\* C25: a call of any of the three operations that the provider answers with
\* a status outside 2xx has made exactly one request and throws an error that
\* carries the provider's error body
C25_ErrorCarriesProviderBody ==
  \A i \in 1..MaxCalls :
    Rejected(i) =>
      /\ Len(calls[i].requests) = 1
      /\ Outcome(i).outcome = "throw"
      /\ IsSome(Outcome(i).error.response)
      /\ Get(Outcome(i).error.response).data = Get(calls[i].response).data

\* the calls that have read a client without a token
UsesEmptyToken(i) ==
  /\ calls[i].pc # "idle"
  /\ calls[i].client # 0
  /\ api[calls[i].client].accessToken = ""

\* C26: a call of any of the three operations on a client without a token
\* throws the configuration error at once and issues no request
C26_MissingTokenIsConfigurationError ==
  \A i \in 1..MaxCalls :
    UsesEmptyToken(i) =>
      /\ calls[i].requests = <<>>
      /\ HasEnded(i)
      /\ Outcome(i).outcome = "throw"
      /\ Outcome(i).error.message = "WhatsApp access token is not set!"

\* call i reads this.api in the step
ReadsClient(i) ==
  /\ calls'[i].pc # "idle"
  /\ calls'[i].client # 0
  /\ calls[i].pc = "idle" \/ calls[i].client = 0

\* C27: a client keeps the token it was constructed with, an update adds a new
\* client and leaves the others alone; a call that reads this.api gets the
\* newest client, which is none older than the newest at the start of the
\* call, and the request it issues carries the whole token of that one client
C27_ClientReplacedWholesale ==
  [][/\ Len(api') >= Len(api)
     /\ \A k \in 1..Len(api) : api'[k] = api[k]
     /\ \A i \in 1..MaxCalls :
          ReadsClient(i) =>
            /\ calls'[i].client = Len(api')
            /\ calls'[i].client >= calls'[i].start
            /\ \A r \in 1..Len(calls'[i].requests) :
                 /\ api'[calls'[i].client].accessToken \in AccessTokens \ {""}
                 /\ calls'[i].requests[r].headers.Authorization
                      = <<"Bearer ", api'[calls'[i].client].accessToken>>]_vars

\* an update between the start of a send and its request: the request carries
\* the new token, a later send too
C27_Witness ==
  /\ Len(api) = 2
  /\ api[1].accessToken = "tokA"
  /\ api[2].accessToken = "tokB"
  /\ \E i \in CallsOf("sendMessage") :
       /\ calls[i].start = 1
       /\ calls[i].client = 2
       /\ calls[i].requests # <<>>
       /\ calls[i].requests[1].headers.Authorization = <<"Bearer ", "tokB">>
  /\ \E i \in CallsOf("sendMessage") :
       /\ calls[i].start = 2
       /\ calls[i].requests # <<>>
       /\ calls[i].requests[1].headers.Authorization = <<"Bearer ", "tokB">>

====
